---- MODULE Spec2Model ----
(***************************************************************************)
(* Live session pipeline of PresentationNotesApp (the translating variant, *)
(* src/unnamed/part_000 lines 450-1257): chunk recorder, transcript        *)
(* accumulator, incremental translation with a context window, and the     *)
(* text-to-speech queue; the audio, translation and summary routers of the *)
(* tRPC server (src/unnamed/part_001 lines 537-940) with their tables; the *)
(* numbered                                                                *)
(* chunk uploads of the first version of the page (part_000 lines 1-447);  *)
(* and the React page (src/client/src/pages/Home.tsx): startRecording,     *)
(* stopRecording, the recorder's onstop handler and handleClear.           *)
(*                                                                         *)
(* Text is a sequence of characters: SP is the blank, CH a letter of the    *)
(* transcript, Tok(k) the translation returned for the k-th translation    *)
(* request.                                                                *)
(*                                                                         *)
(* The browser is single threaded: an action is one task of the event loop *)
(* (an event handler, a timer callback or the continuation of an await)    *)
(* together with every synchronous call it makes.                          *)
(***************************************************************************)
EXTENDS Integers, Sequences, FiniteSets, TLC

\* ------------------------------------------------------------------ bounds
MaxTasks == 3
MaxReq == 3
MaxWindowReq == 4
MaxText == 2
MaxSegs == 2
MaxStarts == 1

\* ------------------------------------------------------- program constants
\* if (this.lastTranslationSegments.length > 3)
ContextSize == 3

\* if (!transcript || transcript.trim().length < 50)
MinTranscriptLength == 50

SP == " "
CH == "a"
Tok(k) == ToString(k)

VARIABLES
    \* fields of PresentationNotesApp
    sessionId,               \* 0 is null
    isRecording,
    mediaRecorder,           \* 0 is null, else the MediaRecorder the field refers to
    audioStream,             \* 0 is null, else the stream the field refers to
    chunkInterval,           \* 0 is null, else the interval the field refers to
    recordingChunks,         \* sequence of segment numbers
    transcriptionText,       \* transcriptionText.textContent
    lastTranscriptionText,
    translationHistory,
    historyIsArray,          \* translationHistory is still the constructor's array
    lastTranslationSegments,
    ttsEnabled,
    currentUtterance,
    ttsQueue,
    isProcessingTTS,
    startBtnDisabled,        \* startBtn.disabled
    stopBtnDisabled,         \* stopBtn.disabled
    \* the environment
    isSafari,                \* navigator.userAgent names Safari and not Chrome
    speech,                  \* what is said in the session, as the service transcribes it
    synth,                   \* utterances held by speechSynthesis, head is spoken
    cancelled,               \* cancelled utterances whose end/error event is pending
    timers,                  \* pending 100 ms timeouts, in the order they were set
    recorders,               \* state of every MediaRecorder created: "inactive" | "recording"
    liveStreams,             \* capture streams whose tracks are not stopped
    intervals,               \* rotation intervals that are set
    recTasks,                \* tasks queued by MediaRecorder.stop()
    uploads,                 \* /api/upload-chunk calls in flight
    translations,            \* /api/translate calls in flight, with their awaiting handler
    starts,                  \* startRecording calls suspended at an await
    stopCalls,               \* /api/stop-session calls in flight
    \* history (not read by the program)
    nextUtt,
    enq,
    removed,
    spoken,
    nextReq,
    segs,
    nextSeg,
    nextUpload,
    nextStart,
    nextSid,
    applied,
    sent,
    closed,
    stopped,                 \* texts enqueued before the last stopCurrentSpeech
    errored,                 \* id of the last utterance that ended with onerror
    failedCall,              \* the last failure logged by translateNewText
    failedSegs,              \* segments of the uploads that failed
    \* tables of the tRPC server (part_001, part_002)
    audioSessions,           \* audio_sessions: the status of session i
    transcriptions,          \* transcriptions, in insertion order
    reply,                   \* the answer of the last procedure call
    \* the other two pages
    first,                   \* fields of the first version of the page (part_000 lines 1-447)
    home,                    \* state and refs of Home.tsx
    \* the encodings
    mimeType,                \* this.mimeType
    supported,               \* the encodings MediaRecorder.isTypeSupported accepts
    \* the rest of the server
    backend                  \* tables translations and summaries; the service the last call used

vars == <<sessionId, isRecording, mediaRecorder, audioStream, chunkInterval,
          recordingChunks, transcriptionText, lastTranscriptionText,
          translationHistory, historyIsArray, lastTranslationSegments,
          ttsEnabled, currentUtterance, ttsQueue, isProcessingTTS,
          startBtnDisabled, stopBtnDisabled, isSafari, speech, synth,
          cancelled, timers, recorders, liveStreams, intervals, recTasks,
          uploads, translations, starts, stopCalls, nextUtt, enq, removed,
          spoken, nextReq, segs, nextSeg, nextUpload, nextStart, nextSid,
          applied, sent, closed, stopped, errored, failedCall, failedSegs,
          audioSessions, transcriptions, reply, first, home, mimeType,
          supported, backend>>

\* The whole state as one record, so that a handler and the methods it calls
\* compose as functions from state to state.
St ==
    [sessionId |-> sessionId, isRecording |-> isRecording,
     mediaRecorder |-> mediaRecorder, audioStream |-> audioStream,
     chunkInterval |-> chunkInterval, recordingChunks |-> recordingChunks,
     transcriptionText |-> transcriptionText,
     lastTranscriptionText |-> lastTranscriptionText,
     translationHistory |-> translationHistory,
     historyIsArray |-> historyIsArray,
     lastTranslationSegments |-> lastTranslationSegments,
     ttsEnabled |-> ttsEnabled, currentUtterance |-> currentUtterance,
     ttsQueue |-> ttsQueue, isProcessingTTS |-> isProcessingTTS,
     startBtnDisabled |-> startBtnDisabled,
     stopBtnDisabled |-> stopBtnDisabled, isSafari |-> isSafari,
     speech |-> speech, synth |-> synth, cancelled |-> cancelled,
     timers |-> timers, recorders |-> recorders,
     liveStreams |-> liveStreams, intervals |-> intervals,
     recTasks |-> recTasks, uploads |-> uploads,
     translations |-> translations, starts |-> starts,
     stopCalls |-> stopCalls, nextUtt |-> nextUtt, enq |-> enq,
     removed |-> removed, spoken |-> spoken, nextReq |-> nextReq,
     segs |-> segs, nextSeg |-> nextSeg, nextUpload |-> nextUpload,
     nextStart |-> nextStart, nextSid |-> nextSid, applied |-> applied,
     sent |-> sent, closed |-> closed, stopped |-> stopped,
     errored |-> errored, failedCall |-> failedCall,
     failedSegs |-> failedSegs, audioSessions |-> audioSessions,
     transcriptions |-> transcriptions, reply |-> reply, first |-> first,
     home |-> home, mimeType |-> mimeType, supported |-> supported,
     backend |-> backend]

Commit(s) ==
    /\ sessionId' = s.sessionId
    /\ isRecording' = s.isRecording
    /\ mediaRecorder' = s.mediaRecorder
    /\ audioStream' = s.audioStream
    /\ chunkInterval' = s.chunkInterval
    /\ recordingChunks' = s.recordingChunks
    /\ transcriptionText' = s.transcriptionText
    /\ lastTranscriptionText' = s.lastTranscriptionText
    /\ translationHistory' = s.translationHistory
    /\ historyIsArray' = s.historyIsArray
    /\ lastTranslationSegments' = s.lastTranslationSegments
    /\ ttsEnabled' = s.ttsEnabled
    /\ currentUtterance' = s.currentUtterance
    /\ ttsQueue' = s.ttsQueue
    /\ isProcessingTTS' = s.isProcessingTTS
    /\ startBtnDisabled' = s.startBtnDisabled
    /\ stopBtnDisabled' = s.stopBtnDisabled
    /\ isSafari' = s.isSafari
    /\ speech' = s.speech
    /\ synth' = s.synth
    /\ cancelled' = s.cancelled
    /\ timers' = s.timers
    /\ recorders' = s.recorders
    /\ liveStreams' = s.liveStreams
    /\ intervals' = s.intervals
    /\ recTasks' = s.recTasks
    /\ uploads' = s.uploads
    /\ translations' = s.translations
    /\ starts' = s.starts
    /\ stopCalls' = s.stopCalls
    /\ nextUtt' = s.nextUtt
    /\ enq' = s.enq
    /\ removed' = s.removed
    /\ spoken' = s.spoken
    /\ nextReq' = s.nextReq
    /\ segs' = s.segs
    /\ nextSeg' = s.nextSeg
    /\ nextUpload' = s.nextUpload
    /\ nextStart' = s.nextStart
    /\ nextSid' = s.nextSid
    /\ applied' = s.applied
    /\ sent' = s.sent
    /\ closed' = s.closed
    /\ stopped' = s.stopped
    /\ errored' = s.errored
    /\ failedCall' = s.failedCall
    /\ failedSegs' = s.failedSegs
    /\ audioSessions' = s.audioSessions
    /\ transcriptions' = s.transcriptions
    /\ reply' = s.reply
    /\ first' = s.first
    /\ home' = s.home
    /\ mimeType' = s.mimeType
    /\ supported' = s.supported
    /\ backend' = s.backend

\* ----------------------------------------------------------------- helpers
Range(q) == {q[i] : i \in 1..Len(q)}

RECURSIVE TrimStart(_)
TrimStart(t) == IF t # <<>> /\ Head(t) = SP THEN TrimStart(Tail(t)) ELSE t

RECURSIVE TrimEnd(_)
TrimEnd(t) ==
    IF t # <<>> /\ t[Len(t)] = SP THEN TrimEnd(SubSeq(t, 1, Len(t) - 1)) ELSE t

\* String.prototype.trim
Trim(t) == TrimEnd(TrimStart(t))

\* String.prototype.substring(from)
Substring(t, from) == SubSeq(t, from + 1, Len(t))

NoUtterance == [id |-> 0, text |-> <<>>]

\* ------------------------------------------------------------ speech queue
\* speechSynthesis.speaking
Speaking(s) == Len(s.synth) > 0

\* speechSynthesis.cancel(): every utterance leaves the device at once; the
\* end/error event of each is delivered later, as a task of its own.
Cancel(s) ==
    [s EXCEPT !.synth = <<>>, !.cancelled = @ \cup Range(s.synth)]

\* speechSynthesis.speak(utterance)
DeviceSpeak(s, u) ==
    [s EXCEPT !.synth = Append(@, u), !.spoken = Append(@, u.text)]

StopCurrentSpeechF(s) ==
    LET c == IF Speaking(s) THEN Cancel(s) ELSE s
    IN  [c EXCEPT !.ttsQueue = <<>>,
                  !.isProcessingTTS = FALSE,
                  !.currentUtterance = NoUtterance,
                  !.removed = @ \cup Range(s.ttsQueue),
                  !.stopped = Range(s.enq)]

SpeakTextImmediateF(s, text) ==
    LET c == IF Speaking(s) THEN Cancel(s) ELSE s
        u == [id |-> s.nextUtt, text |-> text]
        d == [c EXCEPT !.nextUtt = @ + 1, !.currentUtterance = u]
    IN  IF s.isSafari
        THEN [d EXCEPT !.timers = Append(@, [kind |-> "speak", utt |-> u])]
        ELSE DeviceSpeak(d, u)

\* processTTSQueue without the shift: the head task is spoken and stays queued
ProcessTTSQueueKeepsHead(s) ==
    IF s.ttsQueue = <<>>
    THEN [s EXCEPT !.isProcessingTTS = FALSE]
    ELSE SpeakTextImmediateF([s EXCEPT !.isProcessingTTS = TRUE],
                             Head(s.ttsQueue))

\* processTTSQueue up to its await; the rest of the loop runs when the
\* utterance's promise settles (SettleF).
ProcessTTSQueueF(s) ==
    IF s.ttsQueue = <<>>
    THEN [s EXCEPT !.isProcessingTTS = FALSE]
    ELSE SpeakTextImmediateF(
             [s EXCEPT !.isProcessingTTS = TRUE, !.ttsQueue = Tail(@)],
             Head(s.ttsQueue))

\* speakText without the start of the loop: the task is queued only
SpeakTextQueuesOnly(s, text) ==
    IF ~s.ttsEnabled \/ Trim(text) = <<>>
    THEN s
    ELSE [s EXCEPT !.ttsQueue = Append(@, text), !.enq = Append(@, text)]

SpeakTextF(s, text) ==
    IF ~s.ttsEnabled \/ Trim(text) = <<>>
    THEN s
    ELSE LET q == [s EXCEPT !.ttsQueue = Append(@, text),
                            !.enq = Append(@, text)]
         IN  IF ~q.isProcessingTTS THEN ProcessTTSQueueF(q) ELSE q

\* SettleF without the catch: the rejection leaves processTTSQueue and no
\* pause is set
SettleNoCatch(s) == [s EXCEPT !.currentUtterance = NoUtterance]

\* utterance.onend / utterance.onerror, then the loop that awaited the
\* utterance: the catch swallows a rejection and the 100 ms pause is set.
SettleF(s) ==
    [s EXCEPT !.currentUtterance = NoUtterance,
              !.timers = Append(@, [kind |-> "loop", utt |-> NoUtterance])]

\* toggleTTS that clears the translation when speech is turned off
ToggleTTSClears(s) ==
    LET t == [s EXCEPT !.ttsEnabled = ~@]
    IN  IF t.ttsEnabled THEN t
        ELSE StopCurrentSpeechF([t EXCEPT !.translationHistory = <<>>,
                                          !.lastTranslationSegments = <<>>])

ToggleTTSF(s) ==
    LET t == [s EXCEPT !.ttsEnabled = ~@]
    IN  IF t.ttsEnabled THEN t ELSE StopCurrentSpeechF(t)

\* ------------------------------------------------- translation and context
\* DropOldest with pop in place of shift: the newest entry is dropped
DropNewest(w) == IF Len(w) > ContextSize THEN SubSeq(w, 1, Len(w) - 1) ELSE w

\* Array.prototype.shift after push: the window keeps the newest ContextSize
DropOldest(w) == IF Len(w) > ContextSize THEN Tail(w) ELSE w

\* if (this.translationHistory): the constructor's array is truthy, "" is not
HistoryTruthy(s) == s.historyIsArray \/ s.translationHistory # <<>>

\* appendTranslation for the translation returned to request k. An array in
\* translationHistory is still empty here, so += turns it into "".
AppendTranslationF(s, k, translation) ==
    LET h == [s EXCEPT
                 !.translationHistory =
                     IF HistoryTruthy(s) THEN @ \o <<SP>> \o translation
                     ELSE translation,
                 !.historyIsArray = FALSE,
                 !.lastTranslationSegments = DropOldest(Append(@, translation)),
                 !.segs = Append(@, k)]
    IN  IF h.ttsEnabled /\ Trim(translation) # <<>>
        THEN SpeakTextF(h, translation)
        ELSE h

ClearTranslationF(s) ==
    StopCurrentSpeechF(
        [s EXCEPT !.translationHistory = <<>>,
                  !.historyIsArray = FALSE,
                  !.lastTranslationSegments = <<>>,
                  !.segs = <<>>,
                  !.translations = {[t EXCEPT !.stale = TRUE] : t \in @}])

\* translateNewText up to its await on fetch: the request body is built from
\* the window as it is now. cur is the argument of the handler that awaits;
\* base and stale are history: the length the suffix was cut at, and whether
\* the translation was cleared since the call was made.
TranslateNewTextF(s, newText, cur) ==
    [s EXCEPT !.translations =
                  @ \cup {[id |-> s.nextReq, text |-> newText,
                           ctx |-> s.lastTranslationSegments, cur |-> cur,
                           base |-> Len(s.lastTranscriptionText),
                           stale |-> FALSE]},
              !.nextReq = @ + 1]

\* NewText without the trim: the suffix is passed on as it was cut
NewTextUntrimmed(cur, last) == Substring(cur, Len(last))

\* handleNewTranscriptionText: the comparison reads lastTranscriptionText
\* before any await; the assignment at the end runs after the await, when
\* there is one. (The constructor leaves an array in lastTranscriptionText;
\* it has length 0 whenever it is read.)
NewText(cur, last) == Trim(Substring(cur, Len(last)))

\* handleNewTranscriptionText without the test of the trimmed suffix
HandleNewTranscriptionTextUnguarded(s, cur) ==
    IF Len(cur) > Len(s.lastTranscriptionText)
    THEN TranslateNewTextF(s, NewText(cur, s.lastTranscriptionText), cur)
    ELSE [s EXCEPT !.lastTranscriptionText = cur]

HandleNewTranscriptionTextF(s, cur) ==
    IF Len(cur) > Len(s.lastTranscriptionText)
       /\ NewText(cur, s.lastTranscriptionText) # <<>>
    THEN TranslateNewTextF(s, NewText(cur, s.lastTranscriptionText), cur)
    ELSE [s EXCEPT !.lastTranscriptionText = cur]

UpdateTranscriptionF(s, text) ==
    HandleNewTranscriptionTextF([s EXCEPT !.transcriptionText = text], text)

NoCall == [id |-> 0, base |-> 0, cur |-> <<>>]

ClearTranscriptionF(s) ==
    [s EXCEPT !.transcriptionText = <<>>, !.lastTranscriptionText = <<>>,
              !.failedCall = NoCall]

ClearAllF(s) ==
    [ClearTranslationF(ClearTranscriptionF(s)) EXCEPT !.sessionId = 0]

\* /api/translate answered 2xx for call t: translateNewText appends, then the
\* awaiting handleNewTranscriptionText stores its argument. (The field
\* lastTranslationSegment set at line 776 is never read.)
TranslateOkF(s, t) ==
    LET a == AppendTranslationF(s, t.id, <<Tok(t.id)>>)
    IN  [a EXCEPT !.translations = @ \ {t},
                  !.lastTranscriptionText = t.cur]

\* /api/translate answered an error status, or fetch threw: logged only.
TranslateFailF(s, t) ==
    [s EXCEPT !.translations = @ \ {t},
              !.lastTranscriptionText = t.cur]


\* ------------------------------------------------------ encoding negotiation
\* the preference list of detectSupportedMimeType
MimeTypes ==
    <<"audio/webm;codecs=opus", "audio/webm", "audio/mp4;codecs=mp4a.40.2",
      "audio/mp4", "audio/wav", "audio/ogg;codecs=opus">>

\* the preference list of startRecording in Home.tsx
HomeMimeTypes ==
    <<"audio/webm;codecs=opus", "audio/webm", "audio/mp4", "audio/mpeg",
      "audio/wav", "audio/ogg">>

\* every encoding a page asks about
MimeNames == Range(MimeTypes) \cup Range(HomeMimeTypes)

\* the for loop with break: the first entry isTypeSupported accepts, "" if
\* the loop ends without one
FirstSupported(types, sup) ==
    LET I == {i \in 1..Len(types) : types[i] \in sup}
    IN  IF I = {} THEN ""
        ELSE types[CHOOSE i \in I : \A j \in I : i <= j]

DetectSupportedMimeType(sup) ==
    LET m == FirstSupported(MimeTypes, sup)
    IN  IF m = "" THEN "audio/webm" ELSE m

\* Home.tsx: selectedMimeType
HomeSelectedMimeType(sup) ==
    LET m == FirstSupported(HomeMimeTypes, sup)
    IN  IF m = "" THEN "audio/webm" ELSE m

\* mediaRecorderOptions.mimeType, "" when the option is left out
MediaRecorderOptions(s) ==
    IF s.mimeType # "" /\ s.mimeType \in s.supported THEN s.mimeType ELSE ""

\* new MediaRecorder(stream, {mimeType: m}) throws NotSupportedError; without
\* the option the browser records in an encoding of its own
NotSupportedError(s, m) == m # "" /\ m \notin s.supported

\* ---------------------------------------------------------- chunk recorder
\* MediaRecorder.stop(): the recorder is inactive at once; the audio captured
\* since start() is handed over by a task that fires dataavailable, then stop.
MediaRecorderStop(s, r) ==
    [s EXCEPT !.recorders[r] = "inactive",
              !.recTasks = Append(@, [rec |-> r, seg |-> s.nextSeg]),
              !.nextSeg = @ + 1]

\* MediaRecorder.start()
MediaRecorderStart(s, r) == [s EXCEPT !.recorders[r] = "recording"]

\* processRecordedAudio up to its await on fetch: the blob is built from the
\* chunks held now and posted with the session id held now.
ProcessRecordedAudioF(s) ==
    IF s.recordingChunks = <<>>
    THEN s
    ELSE [s EXCEPT !.uploads = @ \cup {[id |-> s.nextUpload,
                                        blob |-> s.recordingChunks,
                                        sid |-> s.sessionId]},
                   !.nextUpload = @ + 1,
                   !.sent = Append(@, s.recordingChunks)]

\* ondataavailable, then onstop, for the segment at the head of the tasks
RecorderTaskF(s, empty) ==
    LET seg == Head(s.recTasks).seg
        d == [s EXCEPT !.recTasks = Tail(@)]
        c == IF ~empty
             THEN [d EXCEPT !.recordingChunks = Append(@, seg),
                            !.closed = @ \cup {seg}]
             ELSE d
    IN  ProcessRecordedAudioF(c)

\* the rotation callback without the restart
RotateStopsOnly(s) ==
    IF s.isRecording /\ s.recorders[s.mediaRecorder] = "recording"
    THEN MediaRecorderStop(s, s.mediaRecorder)
    ELSE s

\* the rotation callback, waiting while an upload is in flight
RotateWaitsForUpload(s) ==
    IF s.isRecording /\ s.recorders[s.mediaRecorder] = "recording"
          /\ s.uploads = {}
    THEN MediaRecorderStart(MediaRecorderStop(s, s.mediaRecorder), s.mediaRecorder)
    ELSE s

\* the callback of the rotation interval
RotateF(s) ==
    IF s.isRecording /\ s.recorders[s.mediaRecorder] = "recording"
    THEN MediaRecorderStart(MediaRecorderStop(s, s.mediaRecorder), s.mediaRecorder)
    ELSE s

\* processRecordedAudio after its await, the upload answered 2xx with
\* complete_text = text: an empty text is not applied.
UploadOkF(s, u, text) ==
    LET a == IF text # <<>>
             THEN [UpdateTranscriptionF(s, text) EXCEPT !.applied = Append(@, u.id)]
             ELSE s
    IN  [a EXCEPT !.recordingChunks = <<>>, !.uploads = @ \ {u}]

\* the upload answered an error status: logged, the chunks are cleared
UploadNotOkF(s, u) ==
    [s EXCEPT !.recordingChunks = <<>>, !.uploads = @ \ {u},
              !.failedSegs = @ \cup Range(u.blob)]

\* fetch or response.json() threw: logged in the catch, the chunks stay
UploadThrowF(s, u) ==
    [s EXCEPT !.uploads = @ \ {u}, !.failedSegs = @ \cup Range(u.blob)]

\* startRecording after getUserMedia resolved; when the constructor throws
\* the catch reports it and the stream stays open
MediaGrantedF(s, st) ==
    LET r == Len(s.recorders) + 1
    IN  IF NotSupportedError(s, MediaRecorderOptions(s))
        THEN [s EXCEPT !.starts = @ \ {st},
                       !.audioStream = r,
                       !.liveStreams = @ \cup {r}]
        ELSE [s EXCEPT !.starts = @ \ {st},
                       !.audioStream = r,
                       !.liveStreams = @ \cup {r},
                       !.mediaRecorder = r,
                       !.recorders = Append(@, "recording"),
                       !.recordingChunks = <<>>,
                       !.isRecording = TRUE,
                       !.startBtnDisabled = TRUE,
                       !.stopBtnDisabled = FALSE,
                       !.chunkInterval = r,
                       !.intervals = @ \cup {r}]

\* stopSession up to its await on fetch
StopSessionF(s) ==
    IF s.sessionId = 0 THEN s
    ELSE [s EXCEPT !.stopCalls = Append(@, s.sessionId)]

\* stopRecording without clearInterval
StopRecordingKeepsTimer(s) ==
    LET a == [s EXCEPT !.isRecording = FALSE]
        b == IF a.mediaRecorder # 0 /\ a.recorders[a.mediaRecorder] # "inactive"
             THEN MediaRecorderStop(a, a.mediaRecorder)
             ELSE a
        c == [b EXCEPT !.liveStreams = @ \ {s.audioStream},
                       !.audioStream = 0,
                       !.startBtnDisabled = FALSE,
                       !.stopBtnDisabled = TRUE]
    IN  StopSessionF(c)

\* stopRecording up to its await on stopSession
StopRecordingF(s) ==
    LET a == [s EXCEPT !.isRecording = FALSE,
                       !.intervals = @ \ {s.chunkInterval},
                       !.chunkInterval = 0]
        b == IF a.mediaRecorder # 0 /\ a.recorders[a.mediaRecorder] # "inactive"
             THEN MediaRecorderStop(a, a.mediaRecorder)
             ELSE a
        c == [b EXCEPT !.liveStreams = @ \ {s.audioStream},
                       !.audioStream = 0,
                       !.startBtnDisabled = FALSE,
                       !.stopBtnDisabled = TRUE]
    IN  StopSessionF(c)


\* -------------------------------- first version of the page (lines 1-447)
\* uploadChunk up to its await on fetch: the form carries the session id and
\* the chunk number held now
UploadChunkF(s) ==
    [s EXCEPT !.first.chunkUploads =
                  Append(@, [sid |-> s.sessionId,
                             number |-> s.first.chunkNumber,
                             pending |-> TRUE])]

\* ondataavailable up to its await on uploadChunk
OnDataAvailableF(s, empty) == IF empty THEN s ELSE UploadChunkF(s)

\* uploadChunk after its awaits, then the rest of ondataavailable: a
\* complete_text that is not empty is shown, the chunk number is incremented
\* whatever the answer was
ChunkUploadedF(s, i, text) ==
    [s EXCEPT !.first.chunkUploads[i].pending = FALSE,
              !.transcriptionText = IF text # <<>> THEN text ELSE @,
              !.first.chunkNumber = @ + 1]

\* startRecording of the first version after /api/start-session answered
\* with success
FirstSessionOkF(s, st) ==
    [s EXCEPT !.starts = (@ \ {st}) \cup {[st EXCEPT !.stage = "media"]},
              !.sessionId = s.nextSid,
              !.nextSid = @ + 1,
              !.first.chunkNumber = 0]

\* startRecording of the first version after getUserMedia resolved; the
\* recorder is started with a timeslice of 30 s
FirstMediaGrantedF(s, st) ==
    LET r == Len(s.recorders) + 1
    IN  [s EXCEPT !.starts = @ \ {st},
                  !.liveStreams = @ \cup {r},
                  !.mediaRecorder = r,
                  !.recorders = Append(@, "recording"),
                  !.isRecording = TRUE,
                  !.startBtnDisabled = TRUE,
                  !.stopBtnDisabled = FALSE]

\* stopRecording of the first version up to its await on /api/stop-session;
\* when nothing records it only sets the buttons
FirstStopRecordingF(s) ==
    IF s.mediaRecorder # 0 /\ s.isRecording
    THEN LET a == IF s.recorders[s.mediaRecorder] # "inactive"
                  THEN MediaRecorderStop(s, s.mediaRecorder)
                  ELSE s
         IN  [a EXCEPT !.liveStreams = @ \ {s.mediaRecorder},
                       !.isRecording = FALSE,
                       !.stopCalls = Append(@, s.sessionId)]
    ELSE [s EXCEPT !.startBtnDisabled = FALSE, !.stopBtnDisabled = TRUE]

\* stopRecording of the first version after /api/stop-session answered: the
\* complete text of the session is shown on success; the buttons are set
\* unless fetch threw
FirstStopAnsweredF(s, i, text, threw) ==
    LET d == [s EXCEPT !.stopCalls =
                  SubSeq(@, 1, i - 1) \o SubSeq(@, i + 1, Len(@))]
    IN  IF threw THEN d
        ELSE [d EXCEPT !.transcriptionText = IF text # <<>> THEN text ELSE @,
                       !.startBtnDisabled = FALSE,
                       !.stopBtnDisabled = TRUE]

\* clearTranscription of the first version
FirstClearTranscriptionF(s) ==
    [s EXCEPT !.transcriptionText = <<>>, !.sessionId = 0,
              !.first.chunkNumber = 0]

\* ------------------------------------------------------- Home.tsx (React page)
\* the catch of startRecording
HomeStartFailedF(s, st) ==
    [s EXCEPT !.starts = @ \ {st}, !.home.error = TRUE,
              !.home.recordingState = "idle"]

\* startRecording after getUserMedia resolved: the stream is kept, the audio
\* level monitor is started, the encoding is chosen and the recorder is made
\* with it and started without a timeslice
HomeMediaGrantedF(s, st) ==
    LET m == HomeSelectedMimeType(s.supported)
        a == [s EXCEPT !.home.streamRef = st.id,
                       !.liveStreams = @ \cup {st.id},
                       !.home.audioContextRef = "running",
                       !.home.animationFrameRef = TRUE,
                       !.home.selectedMimeTypeRef = m]
    IN  IF NotSupportedError(s, m)
        THEN HomeStartFailedF(a, st)
        ELSE [a EXCEPT !.starts = @ \ {st},
                       !.home.mediaRecorderRef = Len(s.recorders) + 1,
                       !.recorders = Append(@, "recording"),
                       !.home.audioChunksRef = <<>>]

\* mediaRecorder.ondataavailable, then mediaRecorder.onstop up to
\* reader.readAsDataURL, for the recording at the head of the tasks
HomeRecorderTaskF(s, empty) ==
    LET seg == Head(s.recTasks).seg
        d == [s EXCEPT !.recTasks = Tail(@)]
        c == IF ~empty THEN [d EXCEPT !.home.audioChunksRef = Append(@, seg)]
             ELSE d
    IN  IF c.home.audioChunksRef # <<>>
        THEN [c EXCEPT !.home.readers = Append(@, c.home.audioChunksRef)]
        ELSE c

\* reader.onload: trpc.audio.uploadAudio.useMutation() is a hook called
\* outside of a render, which throws before any request is made; the catch
\* of the handler shows the toast of a failed upload
HomeReaderLoadF(s) ==
    [s EXCEPT !.home.readers = Tail(@), !.home.toast = "upload failed"]

\* the capture fails: the recorder fires error and stops as by stop();
\* mediaRecorder.onerror shows the error
HomeRecorderErrorF(s, r) ==
    [MediaRecorderStop(s, r) EXCEPT !.home.error = TRUE,
                                    !.home.toast = "recording error"]

\* stopRecording from "Stop all tracks" to the await on the 1000 ms timeout
HomeStopTracksF(s, id) ==
    [s EXCEPT !.liveStreams = @ \ {s.home.streamRef},
              !.home.stops = @ \cup {[id |-> id, stage |-> "wait"]}]

\* stopRecording up to its first await. The context counts as closed from
\* the call of close() on; its state is read by stopRecording only.
HomeStopRecordingF(s) ==
    IF s.home.mediaRecorderRef = 0 \/ s.home.sessionIdRef = 0 THEN s
    ELSE LET r == s.home.mediaRecorderRef
             a == [s EXCEPT !.home.recordingState = "processing",
                            !.home.animationFrameRef = FALSE,
                            !.home.nextStop = @ + 1]
             b == IF a.recorders[r] # "inactive" THEN MediaRecorderStop(a, r)
                  ELSE a
         IN  IF b.home.audioContextRef = "running"
             THEN [b EXCEPT !.home.audioContextRef = "closed",
                            !.home.stops =
                                @ \cup {[id |-> s.home.nextStop,
                                         stage |-> "close"]}]
             ELSE HomeStopTracksF(b, s.home.nextStop)

\* stopRecording after audioContext.close() resolved
HomeContextClosedF(s, sp) ==
    HomeStopTracksF([s EXCEPT !.home.stops = @ \ {sp}], sp.id)

\* stopRecording after the timeout: stopSession is called with the session
\* id the ref holds now
HomeWaitDoneF(s, sp) ==
    [s EXCEPT !.home.stops = (@ \ {sp}) \cup
                                 {[id |-> sp.id, stage |-> "stopSession"]},
              !.home.calls = @ \cup {[proc |-> "stopSession", id |-> sp.id,
                                      sid |-> s.home.sessionIdRef]}]

\* a stopRecording that sets completed inside the try of stopSession: a
\* call that failed leaves recordingState as it is
HomeStopAnsweredOnSuccess(s, c) ==
    [s EXCEPT !.home.calls = @ \ {c},
              !.home.stops = @ \ {[id |-> c.id, stage |-> "stopSession"]},
              !.home.recordingState =
                  IF c.sid \in 1..Len(s.audioSessions)
                     /\ s.audioSessions[c.sid] = "completed"
                  THEN "completed" ELSE @]

\* stopRecording after stopSession resolved or rejected (the rejection is
\* caught and logged)
HomeStopAnsweredF(s, c) ==
    [s EXCEPT !.home.calls = @ \ {c},
              !.home.stops = @ \ {[id |-> c.id, stage |-> "stopSession"]},
              !.home.recordingState = "completed"]

\* handleClear
HomeClearF(s) ==
    [s EXCEPT !.home.transcription = <<>>,
              !.home.translation = <<>>,
              !.home.summary = <<>>,
              !.home.error = FALSE,
              !.home.sessionIdRef = 0,
              !.home.audioChunksRef = <<>>,
              !.home.recordingState = "idle"]

\* ------------------------------------------------- server (tRPC routers)
\* getAudioSession(sessionId) finds a row; 0 is an id that was never issued
SessionFound(s, sid) == sid \in 1..Len(s.audioSessions)

\* a procedure is entered with the session id of its input (startSession
\* takes none and looks nothing up): no service was called yet, and the
\* lookup of the session (getAudioSession) found a row or not
ProcCalled(s, proc, sid) ==
    [s EXCEPT !.backend.service = "none",
              !.backend.missing = (proc # "audio.startSession"
                                   /\ ~SessionFound(s, sid))]

\* the procedure throws, and tRPC answers with the error
ProcThrows(s) == [s EXCEPT !.reply = [ok |-> FALSE, sessionId |-> 0]]

\* the procedure returns
ProcReturns(s) == [s EXCEPT !.reply = [ok |-> TRUE, sessionId |-> 0]]

\* audio.startSession: uuidv4 is the next row number here; the answer carries
\* the id, or the procedure throws
StartSessionProcF(s, dbFails) ==
    IF dbFails THEN ProcThrows(ProcCalled(s, "audio.startSession", 0))
    ELSE [ProcCalled(s, "audio.startSession", 0) EXCEPT
             !.audioSessions = Append(@, "recording"),
             !.reply = [ok |-> TRUE, sessionId |-> Len(s.audioSessions) + 1]]

\* a stopSession that opens a completed session again
StopSessionReopens(s, sid) ==
    IF ~SessionFound(s, sid)
    THEN [s EXCEPT !.reply = [ok |-> FALSE, sessionId |-> 0]]
    ELSE [s EXCEPT !.audioSessions[sid] =
                       IF @ = "completed" THEN "recording" ELSE "completed",
                   !.reply = [ok |-> TRUE, sessionId |-> 0]]

\* audio.stopSession: answers success, or throws when the session is unknown
StopSessionProcF(s, sid) ==
    IF ~SessionFound(s, sid) THEN ProcThrows(ProcCalled(s, "audio.stopSession", sid))
    ELSE ProcReturns([ProcCalled(s, "audio.stopSession", sid) EXCEPT
                         !.audioSessions[sid] = "completed"])

\* createTranscription; during is history: the status of the session when
\* the row is inserted
CreateTranscription(s, sid, text) ==
    [s EXCEPT !.transcriptions =
                  Append(@, [sessionId |-> sid, originalText |-> text,
                             during |-> s.audioSessions[sid]])]

\* audio.transcribeAudio; text is the answer of the transcription service,
\* <<>> when it answers with an error
TranscribeAudioProcF(s, sid, text) ==
    IF ~SessionFound(s, sid) THEN ProcThrows(ProcCalled(s, "audio.transcribeAudio", sid))
    ELSE LET w == [ProcCalled(s, "audio.transcribeAudio", sid) EXCEPT
                      !.backend.service = "whisper"]
         IN  IF text = <<>> THEN ProcThrows(w)
             ELSE ProcReturns(CreateTranscription(w, sid, text))

\* audio.recordTranscription
RecordTranscriptionProcF(s, sid, text) ==
    IF ~SessionFound(s, sid) THEN ProcThrows(ProcCalled(s, "audio.recordTranscription", sid))
    ELSE ProcReturns(CreateTranscription(ProcCalled(s, "audio.recordTranscription", sid), sid, text))

\* the rows getTranscriptionBySessionId can return for the session: the
\* query has limit(1) and no order
TranscriptionsOf(s, sid) ==
    {i \in 1..Len(s.transcriptions) : s.transcriptions[i].sessionId = sid}

\* audio.getTranscription
GetTranscriptionProcF(s, sid) ==
    IF ~SessionFound(s, sid) THEN ProcThrows(ProcCalled(s, "audio.getTranscription", sid))
    ELSE ProcReturns(ProcCalled(s, "audio.getTranscription", sid))

\* a translate that does not look the session up
TranslateProcUnchecked(s, sid, llmFails) ==
    LET l == [ProcCalled(s, "translation.translate", sid) EXCEPT
                 !.backend.service = "llm"]
    IN  IF llmFails THEN ProcThrows(l)
        ELSE ProcReturns([l EXCEPT !.backend.translations =
                                       Append(@, [sessionId |-> sid])])

\* translation.translate: the language model is called, and the translation
\* is stored when the session has a transcription
TranslateProcF(s, sid, llmFails) ==
    IF ~SessionFound(s, sid) THEN ProcThrows(ProcCalled(s, "translation.translate", sid))
    ELSE LET l == [ProcCalled(s, "translation.translate", sid) EXCEPT
                      !.backend.service = "llm"]
         IN  IF llmFails THEN ProcThrows(l)
             ELSE IF TranscriptionsOf(s, sid) = {} THEN ProcReturns(l)
             ELSE ProcReturns([l EXCEPT !.backend.translations =
                                            Append(@, [sessionId |-> sid])])

\* translation.getHistory
GetHistoryProcF(s, sid) ==
    IF ~SessionFound(s, sid) THEN ProcThrows(ProcCalled(s, "translation.getHistory", sid))
    ELSE ProcReturns(ProcCalled(s, "translation.getHistory", sid))

\* a summary.generate that measures the transcript as stored
GenerateProcUntrimmed(s, sid, i, llmFails) ==
    IF ~SessionFound(s, sid) \/ i = 0 THEN ProcThrows(ProcCalled(s, "summary.generate", sid))
    ELSE LET transcript == s.transcriptions[i].originalText
             l == [ProcCalled(s, "summary.generate", sid) EXCEPT
                      !.backend.service = "llm"]
         IN  IF Len(transcript) < MinTranscriptLength
             THEN ProcThrows(ProcCalled(s, "summary.generate", sid))
             ELSE IF llmFails THEN ProcThrows(l)
             ELSE ProcReturns(
                      [l EXCEPT !.backend.summaries =
                                    Append(@, [sessionId |-> sid,
                                               originalText |-> transcript])])

\* summary.generate; i is the row getTranscriptionBySessionId returned, 0
\* when it returned none
GenerateProcF(s, sid, i, llmFails) ==
    IF ~SessionFound(s, sid) THEN ProcThrows(ProcCalled(s, "summary.generate", sid))
    ELSE IF i = 0 THEN ProcThrows(ProcCalled(s, "summary.generate", sid))
    ELSE LET transcript == s.transcriptions[i].originalText
             l == [ProcCalled(s, "summary.generate", sid) EXCEPT
                      !.backend.service = "llm"]
         IN  IF transcript = <<>>
                \/ Len(Trim(transcript)) < MinTranscriptLength
             THEN ProcThrows(ProcCalled(s, "summary.generate", sid))
             ELSE IF llmFails THEN ProcThrows(l)
             ELSE ProcReturns(
                      [l EXCEPT !.backend.summaries =
                                    Append(@, [sessionId |-> sid,
                                               originalText |-> transcript])])

\* summary.get
GetSummaryProcF(s, sid) ==
    IF ~SessionFound(s, sid) THEN ProcThrows(ProcCalled(s, "summary.get", sid))
    ELSE ProcReturns(ProcCalled(s, "summary.get", sid))

\* ------------------------------------------------------------------ inputs
RECURSIVE TextsOfLen(_)
TextsOfLen(n) ==
    IF n = 0 THEN {<<>>}
    ELSE {Append(t, c) : t \in TextsOfLen(n - 1), c \in {SP, CH}}

\* What the transcription service may answer: the running transcript of the
\* speech up to some point, complete, stale or truncated, and not empty.
Texts == {SubSeq(speech, 1, n) : n \in 1..Len(speech)}

\* transcripts about as long as summary.generate asks for: one of the
\* length, one a letter short of it between two blanks
LettersOfLen(n) == [i \in 1..n |-> CH]

TranscriptsNearMin ==
    {LettersOfLen(MinTranscriptLength),
     <<SP>> \o LettersOfLen(MinTranscriptLength - 1) \o <<SP>>}

\* ---------------------------------------------------------------- initial
\* The state the constructor leaves, but for the encodings. The page's
\* markup is not part of the sources: the buttons start as stopRecording
\* leaves them.
InitPage ==
    /\ sessionId = 0
    /\ isRecording = FALSE
    /\ mediaRecorder = 0
    /\ audioStream = 0
    /\ chunkInterval = 0
    /\ recordingChunks = <<>>
    /\ transcriptionText = <<>>
    /\ lastTranscriptionText = <<>>
    /\ translationHistory = <<>>
    /\ historyIsArray = TRUE
    /\ lastTranslationSegments = <<>>
    /\ ttsEnabled = FALSE
    /\ currentUtterance = NoUtterance
    /\ ttsQueue = <<>>
    /\ isProcessingTTS = FALSE
    /\ startBtnDisabled = FALSE
    /\ stopBtnDisabled = TRUE
    /\ isSafari \in BOOLEAN
    /\ speech \in TextsOfLen(MaxText)
    /\ synth = <<>>
    /\ cancelled = {}
    /\ timers = <<>>
    /\ recorders = <<>>
    /\ liveStreams = {}
    /\ intervals = {}
    /\ recTasks = <<>>
    /\ uploads = {}
    /\ translations = {}
    /\ starts = {}
    /\ stopCalls = <<>>
    /\ nextUtt = 1
    /\ enq = <<>>
    /\ removed = {}
    /\ spoken = <<>>
    /\ nextReq = 1
    /\ segs = <<>>
    /\ nextSeg = 1
    /\ nextUpload = 1
    /\ nextStart = 1
    /\ nextSid = 1
    /\ applied = <<>>
    /\ sent = <<>>
    /\ closed = {}
    /\ stopped = {}
    /\ errored = 0
    /\ failedCall = [id |-> 0, base |-> 0, cur |-> <<>>]
    /\ failedSegs = {}
    /\ audioSessions = <<>>
    /\ transcriptions = <<>>
    /\ reply = [ok |-> TRUE, sessionId |-> 0]
    /\ first = [chunkNumber |-> 0, chunkUploads |-> <<>>]
    /\ home = [recordingState |-> "idle",       \* recordingState
               error |-> FALSE,                 \* error is not ""
               sessionIdRef |-> 0,              \* 0 is ""
               streamRef |-> 0,                 \* 0 is null
               audioContextRef |-> "none",      \* "none" is null
               animationFrameRef |-> FALSE,     \* the level monitor is scheduled
               selectedMimeTypeRef |-> "",
               mediaRecorderRef |-> 0,          \* 0 is null
               audioChunksRef |-> <<>>,
               transcription |-> <<>>,
               translation |-> <<>>,
               summary |-> <<>>,
               readers |-> <<>>,                \* blobs a FileReader is reading
               stops |-> {},                    \* stopRecording calls suspended at an await
               calls |-> {},                    \* tRPC calls in flight, but startSession
               toast |-> "",                    \* the last toast shown
               nextStop |-> 1]
    /\ backend = [translations |-> <<>>,      \* rows of translations
                  summaries |-> <<>>,         \* rows of summaries
                  service |-> "none",         \* "none" | "whisper" | "llm"
                  missing |-> FALSE]          \* the last lookup found no session

\* the constructor has run detectSupportedMimeType
InitMimeType == mimeType = DetectSupportedMimeType(supported)

\* a browser that records in every encoding the pages ask for
Init ==
    /\ InitPage
    /\ supported = MimeNames
    /\ InitMimeType

\* ----------------------------------------------------------------- actions
\* updateTranscription(result.complete_text)
UpdateTranscription(text) == Commit(UpdateTranscriptionF(St, text))

TranslateOk(t) ==
    /\ t \in translations
    /\ Commit(TranslateOkF(St, t))

TranslateFail(t) ==
    /\ t \in translations
    /\ Commit(TranslateFailF(St, t))

\* the same step, with the failure that console.error reports kept
TranslateFailLogged(t) ==
    /\ t \in translations
    /\ Commit([TranslateFailF(St, t) EXCEPT
                  !.failedCall = [id |-> t.id, base |-> t.base, cur |-> t.cur]])

\* click on clearTranslationBtn
ClearTranslation == Commit(ClearTranslationF(St))

\* click on clearTranscriptionBtn
ClearTranscription == Commit(ClearTranscriptionF(St))

\* click on clearBtn
ClearAll == Commit(ClearAllF(St))

\* click on ttsToggle
ToggleTTS == Commit(ToggleTTSF(St))

\* speakText(text, languageCode)
SpeakText(text) == Commit(SpeakTextF(St, text))

\* the device finished the utterance it was speaking: utterance.onend
UtteranceEnd ==
    /\ synth # <<>>
    /\ Commit(SettleF([St EXCEPT !.synth = Tail(@)]))

\* the device failed on the utterance it was speaking: utterance.onerror
UtteranceError ==
    /\ synth # <<>>
    /\ Commit(SettleF([St EXCEPT !.synth = Tail(@),
                                 !.errored = Head(synth).id]))

\* the event of an utterance removed by cancel() is delivered
CancelledEvent(u) ==
    /\ u \in cancelled
    /\ Commit(SettleF([St EXCEPT !.cancelled = @ \ {u}]))

\* the 100 ms pause of processTTSQueue elapsed
LoopTimer ==
    /\ timers # <<>>
    /\ Head(timers).kind = "loop"
    /\ Commit(ProcessTTSQueueF([St EXCEPT !.timers = Tail(@)]))

\* the 100 ms delay of speakTextImmediate on Safari elapsed
SafariSpeakTimer ==
    /\ timers # <<>>
    /\ Head(timers).kind = "speak"
    /\ Commit(DeviceSpeak([St EXCEPT !.timers = Tail(@)], Head(timers).utt))

\* click on startBtn: startRecording up to its await on /api/start-session
StartRecordingClick ==
    /\ ~startBtnDisabled
    /\ Commit([St EXCEPT !.starts = @ \cup {[id |-> nextStart, stage |-> "session"]},
                         !.nextStart = @ + 1])

\* /api/start-session answered 2xx: the id is stored, getUserMedia is awaited
SessionOk(st) ==
    /\ st \in starts
    /\ st.stage = "session"
    /\ Commit([St EXCEPT !.starts = (@ \ {st}) \cup {[st EXCEPT !.stage = "media"]},
                         !.sessionId = nextSid,
                         !.nextSid = @ + 1])

\* /api/start-session failed: the catch reports the error
SessionFail(st) ==
    /\ st \in starts
    /\ st.stage = "session"
    /\ Commit([St EXCEPT !.starts = @ \ {st}])

MediaGranted(st) ==
    /\ st \in starts
    /\ st.stage = "media"
    /\ Commit(MediaGrantedF(St, st))

\* getUserMedia rejected: the catch reports the error
MediaDenied(st) ==
    /\ st \in starts
    /\ st.stage = "media"
    /\ Commit([St EXCEPT !.starts = @ \ {st}])

\* a rotation interval fires; its period of 10 s is long enough for the task
\* of the previous rotation to have run
Rotate(i) ==
    /\ i \in intervals
    /\ recTasks = <<>>
    /\ Commit(RotateF(St))

\* the task queued by MediaRecorder.stop() runs; empty is event.data.size = 0
RecorderTask(empty) ==
    /\ recTasks # <<>>
    /\ Commit(RecorderTaskF(St, empty))

UploadOk(u, text) ==
    /\ u \in uploads
    /\ Commit(UploadOkF(St, u, text))

UploadNotOk(u) ==
    /\ u \in uploads
    /\ Commit(UploadNotOkF(St, u))

UploadThrow(u) ==
    /\ u \in uploads
    /\ Commit(UploadThrowF(St, u))

\* click on stopBtn
StopRecordingClick ==
    /\ ~stopBtnDisabled
    /\ Commit(StopRecordingF(St))

\* /api/stop-session answered or failed: the status line or the log changes
StopSessionDone(i) ==
    /\ i \in 1..Len(stopCalls)
    /\ Commit([St EXCEPT !.stopCalls =
                   SubSeq(@, 1, i - 1) \o SubSeq(@, i + 1, Len(@))])

\* the capture device fails while recorder r records: the browser makes the
\* recorder inactive and fires error, dataavailable and stop; no handler is
\* set for error, the one for stop is the usual one
RecorderError(r) ==
    /\ r \in 1..Len(recorders)
    /\ recorders[r] = "recording"
    /\ Commit(MediaRecorderStop(St, r))

\* first version: click on startBtn, up to the await on /api/start-session
FirstStartRecordingClick ==
    /\ ~startBtnDisabled
    /\ Commit([St EXCEPT !.starts = @ \cup {[id |-> nextStart, stage |-> "session"]},
                         !.nextStart = @ + 1])

FirstSessionOk(st) ==
    /\ st \in starts
    /\ st.stage = "session"
    /\ Commit(FirstSessionOkF(St, st))

\* first version: the session call failed or answered success false
FirstSessionFail(st) ==
    /\ st \in starts
    /\ st.stage = "session"
    /\ Commit([St EXCEPT !.starts = @ \ {st}])

FirstMediaGranted(st) ==
    /\ st \in starts
    /\ st.stage = "media"
    /\ Commit(FirstMediaGrantedF(St, st))

\* first version: getUserMedia rejected
FirstMediaDenied(st) ==
    /\ st \in starts
    /\ st.stage = "media"
    /\ Commit([St EXCEPT !.starts = @ \ {st}])

\* first version: 30 s of recorder r elapsed, dataavailable fires
Timeslice(r, empty) ==
    /\ r \in 1..Len(recorders)
    /\ recorders[r] = "recording"
    /\ Commit(OnDataAvailableF(St, empty))

\* first version: the dataavailable that follows MediaRecorder.stop()
FinalDataAvailable(empty) ==
    /\ recTasks # <<>>
    /\ Commit(OnDataAvailableF([St EXCEPT !.recTasks = Tail(@)], empty))

\* first version: the upload of call i answered, or failed
ChunkUploaded(i, text) ==
    /\ i \in 1..Len(first.chunkUploads)
    /\ first.chunkUploads[i].pending
    /\ Commit(ChunkUploadedF(St, i, text))

\* first version: click on stopBtn
FirstStopRecordingClick ==
    /\ ~stopBtnDisabled
    /\ Commit(FirstStopRecordingF(St))

FirstStopAnswered(i, text, threw) ==
    /\ i \in 1..Len(stopCalls)
    /\ Commit(FirstStopAnsweredF(St, i, text, threw))

\* first version: click on clearBtn
FirstClearTranscription == Commit(FirstClearTranscriptionF(St))

\* Home.tsx: click on the start button, shown enabled while recordingState
\* is idle; startRecording up to its await on startSession
HomeStartRecordingClick ==
    /\ home.recordingState = "idle"
    /\ Commit([St EXCEPT !.home.error = FALSE,
                         !.home.recordingState = "recording",
                         !.starts = @ \cup {[id |-> nextStart,
                                             stage |-> "startSession"]},
                         !.nextStart = @ + 1])

\* Home.tsx: the server ran audio.startSession and its answer arrived
HomeSessionOk(st) ==
    /\ st \in starts
    /\ st.stage = "startSession"
    /\ LET a == StartSessionProcF(St, FALSE)
       IN  Commit([a EXCEPT !.starts = (@ \ {st}) \cup
                                          {[st EXCEPT !.stage = "getUserMedia"]},
                            !.home.sessionIdRef = a.reply.sessionId])

\* Home.tsx: audio.startSession threw
HomeSessionFail(st) ==
    /\ st \in starts
    /\ st.stage = "startSession"
    /\ Commit(HomeStartFailedF(StartSessionProcF(St, TRUE), st))

HomeMediaGranted(st) ==
    /\ st \in starts
    /\ st.stage = "getUserMedia"
    /\ Commit(HomeMediaGrantedF(St, st))

\* Home.tsx: getUserMedia rejected
HomeMediaDenied(st) ==
    /\ st \in starts
    /\ st.stage = "getUserMedia"
    /\ Commit(HomeStartFailedF(St, st))

\* Home.tsx: click on the stop button, shown enabled while recordingState is
\* recording
HomeStopRecordingClick ==
    /\ home.recordingState = "recording"
    /\ Commit(HomeStopRecordingF(St))

\* Home.tsx: audioContext.close() resolved
HomeContextClosed(sp) ==
    /\ sp \in home.stops
    /\ sp.stage = "close"
    /\ Commit(HomeContextClosedF(St, sp))

\* Home.tsx: the 1000 ms timeout of stopRecording fired
HomeWaitDone(sp) ==
    /\ sp \in home.stops
    /\ sp.stage = "wait"
    /\ Commit(HomeWaitDoneF(St, sp))

\* Home.tsx: the server ran audio.stopSession and its answer arrived, or the
\* call failed on the way
HomeStopAnswered(c, netFails) ==
    /\ c \in home.calls
    /\ c.proc = "stopSession"
    /\ Commit(HomeStopAnsweredF(
                  IF netFails THEN St ELSE StopSessionProcF(St, c.sid), c))

\* Home.tsx: the recorder's dataavailable and stop events
HomeRecorderTask(empty) ==
    /\ recTasks # <<>>
    /\ Commit(HomeRecorderTaskF(St, empty))

\* Home.tsx: the FileReader has read the blob
HomeReaderLoad ==
    /\ home.readers # <<>>
    /\ Commit(HomeReaderLoadF(St))

\* Home.tsx: the capture device fails while the page's recorder records
HomeRecorderError ==
    /\ home.mediaRecorderRef # 0
    /\ recorders[home.mediaRecorderRef] = "recording"
    /\ Commit(HomeRecorderErrorF(St, home.mediaRecorderRef))

\* Home.tsx: click on the clear button, shown enabled unless recordingState
\* is recording
HomeClear ==
    /\ home.recordingState # "recording"
    /\ Commit(HomeClearF(St))

\* a client calls audio.startSession
StartSessionProc(dbFails) == Commit(StartSessionProcF(St, dbFails))

\* a client calls audio.stopSession
StopSessionProc(sid) == Commit(StopSessionProcF(St, sid))

\* a client calls audio.transcribeAudio
TranscribeAudioProc(sid, text) == Commit(TranscribeAudioProcF(St, sid, text))

\* a client calls audio.recordTranscription
RecordTranscriptionProc(sid, text) ==
    Commit(RecordTranscriptionProcF(St, sid, text))

\* a client calls audio.getTranscription
GetTranscriptionProc(sid) == Commit(GetTranscriptionProcF(St, sid))

\* a client calls translation.translate
TranslateProc(sid, llmFails) == Commit(TranslateProcF(St, sid, llmFails))

\* a client calls translation.getHistory
GetHistoryProc(sid) == Commit(GetHistoryProcF(St, sid))

\* a client calls summary.generate; the query returns one of the session's
\* transcriptions, if there is any
GenerateProc(sid, llmFails) ==
    \E i \in IF TranscriptionsOf(St, sid) = {} THEN {0}
              ELSE TranscriptionsOf(St, sid) :
        Commit(GenerateProcF(St, sid, i, llmFails))

\* a client calls summary.get
GetSummaryProc(sid) == Commit(GetSummaryProcF(St, sid))

\* ---------------------------------------------------------- specifications
\* transcript accumulator and translation context manager
Next ==
    \/ nextReq <= MaxReq /\ \E text \in Texts : UpdateTranscription(text)
    \/ \E t \in translations : TranslateOk(t)
    \/ \E t \in translations : TranslateFail(t)
    \/ ClearTranslation
    \/ ClearTranscription
    \/ ClearAll

\* the speech toggle is off in Init, so the browser is not told apart here
InitChrome == Init /\ ~isSafari

Spec == InitChrome /\ [][Next]_vars

\* words with pauses: a blank before and after every letter
InitBlank ==
    /\ Init
    /\ speech = [i \in 1..MaxText |-> IF i % 2 = 1 THEN SP ELSE CH]
    /\ ~isSafari

\* the same component on that speech
SpecBlank == InitBlank /\ [][Next]_vars

\* one word is said over and over
InitWindow == Init /\ speech = [i \in 1..MaxText |-> CH] /\ ~isSafari

NextWindow ==
    \/ nextReq <= MaxWindowReq /\ \E text \in Texts : UpdateTranscription(text)
    \/ \E t \in translations : TranslateOk(t)
    \/ \E t \in translations : TranslateFail(t)
    \/ ClearTranslation
    \/ ClearTranscription
    \/ ClearAll

\* the same component with more requests
SpecWindow == InitWindow /\ [][NextWindow]_vars

\* the translation pipeline between two clears of the transcript: detection,
\* answers and failures of the translation call, and the translation's clear
NextContext ==
    \/ nextReq <= MaxWindowReq /\ \E text \in Texts : UpdateTranscription(text)
    \/ \E t \in translations : TranslateOk(t)
    \/ \E t \in translations : TranslateFail(t)
    \/ ClearTranslation

SpecContext == InitWindow /\ [][NextContext]_vars

\* speech queue
NextTTS ==
    \/ Len(enq) < MaxTasks
          /\ \E text \in {<<Tok(Len(enq) + 1)>>, <<SP>>} : SpeakText(text)
    \/ ToggleTTS
    \/ ClearTranslation
    \/ UtteranceEnd
    \/ UtteranceError
    \/ \E u \in cancelled : CancelledEvent(u)
    \/ LoopTimer
    \/ SafariSpeakTimer

SpecTTS == Init /\ [][NextTTS]_vars

\* speech queue, where the device reports the end or the failure of every
\* utterance it holds or was made to drop, and every timeout set fires
InitTTS == Init /\ speech = [i \in 1..MaxText |-> CH]

SpecTTSLive ==
    /\ InitTTS
    /\ [][NextTTS]_vars
    /\ WF_vars(UtteranceEnd \/ UtteranceError)
    /\ WF_vars(\E u \in cancelled : CancelledEvent(u))
    /\ WF_vars(LoopTimer)
    /\ WF_vars(SafariSpeakTimer)

\* translation with speech output switched on and off
NextSpeech ==
    \/ nextReq <= MaxReq /\ \E text \in Texts : UpdateTranscription(text)
    \/ \E t \in translations : TranslateOk(t)
    \/ \E t \in translations : TranslateFail(t)
    \/ ToggleTTS
    \/ UtteranceEnd
    \/ \E u \in cancelled : CancelledEvent(u)
    \/ LoopTimer

SpecSpeech == InitWindow /\ [][NextSpeech]_vars

\* transcript accumulator and translation, with the failures kept
NextFail ==
    \/ nextReq <= MaxReq /\ \E text \in Texts : UpdateTranscription(text)
    \/ \E t \in translations : TranslateOk(t)
    \/ \E t \in translations : TranslateFailLogged(t)
    \/ ClearTranscription

SpecFail == InitWindow /\ [][NextFail]_vars

\* chunk recorder and transcript accumulator
NextRec ==
    \/ nextStart <= MaxStarts /\ StartRecordingClick
    \/ \E st \in starts : SessionOk(st)
    \/ \E st \in starts : SessionFail(st)
    \/ \E st \in starts : MediaGranted(st)
    \/ \E st \in starts : MediaDenied(st)
    \/ nextSeg <= MaxSegs /\ \E i \in intervals : Rotate(i)
    \/ \E empty \in BOOLEAN : RecorderTask(empty)
    \/ \E u \in uploads, text \in Texts \cup {<<>>} : UploadOk(u, text)
    \/ \E u \in uploads : UploadNotOk(u)
    \/ \E u \in uploads : UploadThrow(u)
    \/ StopRecordingClick
    \/ \E i \in 1..Len(stopCalls) : StopSessionDone(i)

SpecRec == InitWindow /\ [][NextRec]_vars

\* two sessions one after the other: the start button is not clicked again
\* while a start is under way, and every call is answered with success
NextRestart ==
    \/ nextStart <= MaxStarts + 1 /\ starts = {} /\ StartRecordingClick
    \/ \E st \in starts : SessionOk(st)
    \/ \E st \in starts : MediaGranted(st)
    \/ nextSeg <= MaxSegs /\ \E i \in intervals : Rotate(i)
    \/ RecorderTask(FALSE)
    \/ \E u \in uploads, text \in Texts : UploadOk(u, text)
    \/ \E t \in translations : TranslateOk(t)
    \/ StopRecordingClick
    \/ \E i \in 1..Len(stopCalls) : StopSessionDone(i)

SpecRestart == InitWindow /\ [][NextRestart]_vars

\* the start button can be clicked again until the microphone is granted;
\* calls fail, the microphone is refused, the capture device breaks
NextSession ==
    \/ nextStart <= MaxStarts + 1 /\ StartRecordingClick
    \/ \E st \in starts : SessionOk(st)
    \/ \E st \in starts : SessionFail(st)
    \/ \E st \in starts : MediaGranted(st)
    \/ \E st \in starts : MediaDenied(st)
    \/ nextSeg <= MaxSegs /\ \E i \in intervals : Rotate(i)
    \/ \E r \in 1..Len(recorders) : RecorderError(r)
    \/ RecorderTask(FALSE)
    \/ \E u \in uploads, text \in Texts : UploadOk(u, text)
    \/ StopRecordingClick
    \/ \E i \in 1..Len(stopCalls) : StopSessionDone(i)

SpecSession == InitWindow /\ [][NextSession]_vars

\* translation with speech output, in any browser, and the clear button
NextClear ==
    \/ nextReq <= MaxReq /\ \E text \in Texts : UpdateTranscription(text)
    \/ \E t \in translations : TranslateOk(t)
    \/ ToggleTTS
    \/ ClearAll
    \/ UtteranceEnd
    \/ \E u \in cancelled : CancelledEvent(u)
    \/ LoopTimer
    \/ SafariSpeakTimer

SpecClear == InitTTS /\ [][NextClear]_vars

\* chunk recorder on a working device and network: segments with and
\* without audio, every upload answered with no text (silence)
NextRotate ==
    \/ nextStart <= MaxStarts /\ StartRecordingClick
    \/ \E st \in starts : SessionOk(st)
    \/ \E st \in starts : MediaGranted(st)
    \/ nextSeg <= MaxSegs /\ \E i \in intervals : Rotate(i)
    \/ \E empty \in BOOLEAN : RecorderTask(empty)
    \/ \E u \in uploads : UploadOk(u, <<>>)
    \/ StopRecordingClick
    \/ \E i \in 1..Len(stopCalls) : StopSessionDone(i)

SpecRotate == InitWindow /\ [][NextRotate]_vars

\* the first version of the page: timesliced recorder, numbered chunks
NextChunks ==
    \/ nextStart <= MaxStarts /\ FirstStartRecordingClick
    \/ \E st \in starts : FirstSessionOk(st)
    \/ \E st \in starts : FirstSessionFail(st)
    \/ \E st \in starts : FirstMediaGranted(st)
    \/ \E st \in starts : FirstMediaDenied(st)
    \/ Len(first.chunkUploads) < MaxSegs
          /\ \E r \in 1..Len(recorders), empty \in BOOLEAN : Timeslice(r, empty)
    \/ \E empty \in BOOLEAN : FinalDataAvailable(empty)
    \/ \E i \in 1..Len(first.chunkUploads), text \in Texts \cup {<<>>} :
           ChunkUploaded(i, text)
    \/ FirstStopRecordingClick
    \/ \E i \in 1..Len(stopCalls), text \in Texts \cup {<<>>}, threw \in BOOLEAN :
           FirstStopAnswered(i, text, threw)
    \/ FirstClearTranscription

SpecChunks == InitWindow /\ [][NextChunks]_vars

\* Home.tsx in a browser with any set of supported encodings: recordings
\* are started, every one fails or is left running
InitMime ==
    /\ InitPage
    /\ supported \in SUBSET MimeNames
    /\ InitMimeType
    /\ speech = [i \in 1..MaxText |-> CH]
    /\ ~isSafari

NextMime ==
    \/ nextStart <= MaxStarts /\ HomeStartRecordingClick
    \/ \E st \in starts : HomeSessionOk(st)
    \/ \E st \in starts : HomeSessionFail(st)
    \/ \E st \in starts : HomeMediaGranted(st)
    \/ \E st \in starts : HomeMediaDenied(st)

SpecMime == InitMime /\ [][NextMime]_vars

\* Home.tsx: sessions are started, stopped and cleared
NextHome ==
    \/ nextStart <= MaxStarts + 1 /\ HomeStartRecordingClick
    \/ \E st \in starts : HomeSessionOk(st)
    \/ \E st \in starts : HomeSessionFail(st)
    \/ \E st \in starts : HomeMediaGranted(st)
    \/ \E st \in starts : HomeMediaDenied(st)
    \/ HomeStopRecordingClick
    \/ \E sp \in home.stops : HomeContextClosed(sp)
    \/ \E sp \in home.stops : HomeWaitDone(sp)
    \/ \E c \in home.calls, netFails \in BOOLEAN : HomeStopAnswered(c, netFails)
    \/ \E empty \in BOOLEAN : HomeRecorderTask(empty)
    \/ HomeReaderLoad
    \/ HomeRecorderError
    \/ HomeClear

SpecHome == InitWindow /\ [][NextHome]_vars

\* Home.tsx, where every await of stopRecording is eventually resumed: the
\* audio context closes, the timeout fires and the stopSession call is
\* answered or fails
NextStop ==
    \/ nextStart <= MaxStarts /\ HomeStartRecordingClick
    \/ \E st \in starts : HomeSessionOk(st)
    \/ \E st \in starts : HomeSessionFail(st)
    \/ \E st \in starts : HomeMediaGranted(st)
    \/ \E st \in starts : HomeMediaDenied(st)
    \/ HomeStopRecordingClick
    \/ \E sp \in home.stops : HomeContextClosed(sp)
    \/ \E sp \in home.stops : HomeWaitDone(sp)
    \/ \E c \in home.calls, netFails \in BOOLEAN : HomeStopAnswered(c, netFails)
    \/ \E empty \in BOOLEAN : HomeRecorderTask(empty)
    \/ HomeReaderLoad
    \/ HomeRecorderError
    \/ HomeClear

SpecStopLive ==
    /\ InitWindow
    /\ [][NextStop]_vars
    /\ WF_vars(\E sp \in home.stops : HomeContextClosed(sp))
    /\ WF_vars(\E sp \in home.stops : HomeWaitDone(sp))
    /\ WF_vars(\E c \in home.calls, netFails \in BOOLEAN :
                   HomeStopAnswered(c, netFails))

\* the audio router, its public procedures called in any order
NextServer ==
    \/ Len(audioSessions) <= MaxStarts
          /\ \E dbFails \in BOOLEAN : StartSessionProc(dbFails)
    \/ \E sid \in 0..Len(audioSessions) : StopSessionProc(sid)
    \/ Len(transcriptions) < MaxSegs
          /\ \E sid \in 0..Len(audioSessions), text \in Texts \cup {<<>>} :
                 TranscribeAudioProc(sid, text)
    \/ Len(transcriptions) < MaxSegs
          /\ \E sid \in 0..Len(audioSessions), text \in Texts :
                 RecordTranscriptionProc(sid, text)

SpecServer == InitWindow /\ [][NextServer]_vars

\* the three routers, their procedures that take a session id called in any
\* order with ids that were issued and one that was not
NextRouter ==
    \/ Len(audioSessions) < MaxStarts
          /\ \E dbFails \in BOOLEAN : StartSessionProc(dbFails)
    \/ \E sid \in 0..Len(audioSessions) : StopSessionProc(sid)
    \/ Len(transcriptions) < MaxSegs
          /\ \E sid \in 0..Len(audioSessions),
                text \in TranscriptsNearMin \cup {<<>>} :
                 TranscribeAudioProc(sid, text)
    \/ Len(transcriptions) < MaxSegs
          /\ \E sid \in 0..Len(audioSessions), text \in TranscriptsNearMin :
                 RecordTranscriptionProc(sid, text)
    \/ \E sid \in 0..Len(audioSessions) : GetTranscriptionProc(sid)
    \/ Len(backend.translations) < MaxStarts
          /\ \E sid \in 0..Len(audioSessions), llmFails \in BOOLEAN :
                 TranslateProc(sid, llmFails)
    \/ \E sid \in 0..Len(audioSessions) : GetHistoryProc(sid)
    \/ Len(backend.summaries) < MaxStarts
          /\ \E sid \in 0..Len(audioSessions), llmFails \in BOOLEAN :
                 GenerateProc(sid, llmFails)
    \/ \E sid \in 0..Len(audioSessions) : GetSummaryProc(sid)

SpecRouter == InitWindow /\ [][NextRouter]_vars

\* the procedures that lead to a summary: a session is opened and stopped,
\* transcripts are stored for it and a summary is asked for and read
NextSummary ==
    \/ Len(audioSessions) < MaxStarts
          /\ \E dbFails \in BOOLEAN : StartSessionProc(dbFails)
    \/ \E sid \in 0..Len(audioSessions) : StopSessionProc(sid)
    \/ Len(transcriptions) < MaxSegs
          /\ \E sid \in 0..Len(audioSessions),
                text \in TranscriptsNearMin \cup {<<>>} :
                 TranscribeAudioProc(sid, text)
    \/ Len(transcriptions) < MaxSegs
          /\ \E sid \in 0..Len(audioSessions), text \in TranscriptsNearMin :
                 RecordTranscriptionProc(sid, text)
    \/ Len(backend.summaries) < MaxSegs
          /\ \E sid \in 0..Len(audioSessions), llmFails \in BOOLEAN :
                 GenerateProc(sid, llmFails)
    \/ \E sid \in 0..Len(audioSessions) : GetSummaryProc(sid)

SpecSummary == InitWindow /\ [][NextSummary]_vars

\* ================================================================== claims
RECURSIVE Ascending(_)
Ascending(S) ==
    IF S = {} THEN <<>>
    ELSE LET m == CHOOSE x \in S : \A y \in S : y <= x
         IN  Append(Ascending(S \ {m}), m)

LastUpTo(n, q) == IF Len(q) > n THEN SubSeq(q, Len(q) - n + 1, Len(q)) ELSE q

\* C1: at most one translation call of a session is in flight at any time.
C1_OneTranslationInFlight == Cardinality(translations) <= 1

\* C2: the segments of the running translation are in the order their
\* suffixes were detected (the order the requests were made in).
C2_SegmentsInDetectionOrder ==
    \A i, j \in 1..Len(segs) : i < j => segs[i] < segs[j]

\* C3: while a request made since the last clear is in flight, its context is
\* the translations, oldest first, of the up-to-3 most recent suffixes that
\* were detected before it and have been translated.
C3_ContextOf(k) ==
    LET ids == Ascending({i \in Range(segs) : i < k})
    IN  LastUpTo(ContextSize, [n \in 1..Len(ids) |-> <<Tok(ids[n])>>])

C3_ContextIsEarlierTranslations ==
    \A t \in translations : ~t.stale => t.ctx = C3_ContextOf(t.id)

\* C4: the context window holds at most 3 entries and equals the last
\* min(3, n) of the n translations appended since the last clear, in the
\* order they were appended.
C4_WindowIsLastThree ==
    /\ Len(lastTranslationSegments) <= ContextSize
    /\ lastTranslationSegments =
           LastUpTo(ContextSize, [n \in 1..Len(segs) |-> <<Tok(segs[n])>>])

\* a 4th translation was appended and the oldest one is gone
C4_Witness ==
    /\ Len(segs) > ContextSize
    /\ Len(lastTranslationSegments) = ContextSize
    /\ <<Tok(segs[1])>> \notin Range(lastTranslationSegments)

\* C5: in a step that is no clear, neither the cached transcript nor the
\* baseline of the next suffix gets shorter.
C5_TranscriptNeverShrinks ==
    [][\/ ClearTranscription
       \/ ClearAll
       \/ /\ Len(transcriptionText') >= Len(transcriptionText)
          /\ Len(lastTranscriptionText') >= Len(lastTranscriptionText)]_vars

\* the last L2 - L1 characters of a response
C6_Tail(t) == SubSeq(t.cur, t.base + 1, Len(t.cur))

C7_AppliedInSubmissionOrder ==
    \A i, j \in 1..Len(applied) : i < j => applied[i] < applied[j]

\* C8: every closed segment that holds audio is part of exactly one upload.
C8_EachSegmentUploadedOnce ==
    \A g \in closed :
        Cardinality({n \in 1..Len(sent) : g \in Range(sent[n])}) = 1

\* Every utterance not yet settled is awaited by the processTTSQueue call that
\* made it, and every pending pause belongs to one such call.
C9_ActiveLoops ==
    Len(synth) + Cardinality(cancelled) + Len(timers)

\* C9: at most one utterance is held by the device and at most one
\* queue-processing loop is active.
C9_OneLoopOneUtterance ==
    /\ Len(synth) <= 1
    /\ C9_ActiveLoops <= 1

C10_Kept(text) == text \notin removed

C10_PendingSpeak ==
    LET IsSpeak(e) == e.kind = "speak"
        p == SelectSeq(timers, IsSpeak)
    IN  [n \in 1..Len(p) |-> p[n].utt.text]

\* C10: the tasks enqueued and not removed by stopCurrentSpeech are, in the
\* order they were enqueued, the tasks handed to the device, then the task
\* waiting for the Safari delay, then the tasks still queued: none is handed
\* over twice, skipped or overtaken.
C10_SpokenOnceInOrder ==
    SelectSeq(enq, C10_Kept) = spoken \o C10_PendingSpeak \o ttsQueue

\* tasks arrived faster than they are spoken: two were handed to the device
\* one after the other while a third waits
C10_Witness ==
    /\ Len(spoken) >= 2
    /\ ttsQueue # <<>>

\* C11: a step that runs stopCurrentSpeech leaves the queue empty, no utterance
\* on the device and the queue idle, and no task enqueued before the last
\* stopCurrentSpeech is handed to the device after it.
C11_StopAllSilences ==
    [][/\ (ClearTranslation \/ ClearAll \/ (ttsEnabled /\ ToggleTTS)) =>
              /\ ttsQueue' = <<>>
              /\ synth' = <<>>
              /\ ~isProcessingTTS'
              /\ currentUtterance' = NoUtterance
       /\ Len(spoken') > Len(spoken) =>
              spoken'[Len(spoken')] \notin stopped]_vars

\* every accepted task is eventually handed to the device or removed by
\* stopCurrentSpeech: again and again all tasks accepted so far have left the
\* queue (enq, spoken and removed only grow, so this gives each task its
\* own "accepted leads to spoken or removed")
C12_EveryTaskLeavesTheQueue ==
    []<>(\A k \in 1..MaxTasks :
            (<<Tok(k)>> \in Range(enq)) =>
                (<<Tok(k)>> \in Range(spoken) \/ <<Tok(k)>> \in removed))

\* C12 as stated: a task accepted while the device speaks nothing is started
\* in the same step, and every accepted task is eventually spoken or removed.
C12_StartsWhenNothingSpeaks ==
    /\ [][(Len(enq') > Len(enq) /\ synth = <<>>) =>
              currentUtterance'.text = enq'[Len(enq')]]_vars
    /\ C12_EveryTaskLeavesTheQueue

\* C12 as amended: a task accepted while isProcessingTTS is false is shifted
\* and given an utterance in the same step, and every accepted task is
\* eventually spoken or removed.
C12_StartsWhenIdle ==
    /\ [][(Len(enq') > Len(enq) /\ ~isProcessingTTS) =>
              /\ currentUtterance'.text = enq'[Len(enq')]
              /\ ttsQueue' = <<>>
              /\ isProcessingTTS']_vars
    /\ C12_EveryTaskLeavesTheQueue

\* two tasks were accepted and both were handed to the device
C12_Witness ==
    /\ Len(enq) >= 2
    /\ ttsQueue = <<>>
    /\ \A i \in 1..Len(enq) : enq[i] \in Range(spoken)

\* C13: a step in which an utterance ends with onerror keeps the queued tasks,
\* sets the pause after which processTTSQueue takes the next task, and changes
\* neither the transcript, the translation nor the session.
C13_ErrorKeepsQueueAndState ==
    [][UtteranceError =>
          /\ ttsQueue' = ttsQueue
          /\ timers' = Append(timers, [kind |-> "loop", utt |-> NoUtterance])
          /\ UNCHANGED <<transcriptionText, lastTranscriptionText,
                         translationHistory, historyIsArray,
                         lastTranslationSegments, segs, translations,
                         sessionId, isRecording, mediaRecorder, audioStream,
                         chunkInterval, recordingChunks, startBtnDisabled,
                         stopBtnDisabled, ttsEnabled, isProcessingTTS>>]_vars

\* an utterance failed while a task was queued: the task is still queued and
\* the pause of the loop is pending
C13_Witness ==
    /\ errored # 0
    /\ nextUtt = errored + 1
    /\ ttsQueue # <<>>
    /\ timers # <<>>
    /\ isProcessingTTS

\* C14: a click on the speech toggle changes neither the transcript, the
\* baseline, the running translation, the window nor the calls in flight, and
\* a translation that arrives is enqueued for speech exactly when speech is
\* enabled at that moment.
C14_ToggleOnlyGatesSpeech ==
    [][/\ ToggleTTS =>
              UNCHANGED <<transcriptionText, lastTranscriptionText,
                          translationHistory, historyIsArray,
                          lastTranslationSegments, segs, translations,
                          nextReq, uploads, nextUpload, recordingChunks,
                          sessionId, isRecording>>
       /\ \A t \in translations :
              TranslateOk(t) => ((Len(enq') > Len(enq)) <=> ttsEnabled)]_vars

\* the first translation was enqueued, speech was turned off, and the second
\* translation was appended to the translation and the window only
C14_Witness ==
    /\ ~ttsEnabled
    /\ Len(segs) = 2
    /\ Len(lastTranslationSegments) = 2
    /\ enq = <<<<Tok(segs[1])>>>>

\* C15: a response whose part beyond the baseline is empty once trimmed makes
\* no translation request and leaves the running translation, the window and
\* the speech queue as they are.
C15_BlankSuffixIsSkipped ==
    [][\A text \in Texts :
          (/\ Trim(Substring(text, Len(lastTranscriptionText))) = <<>>
           /\ transcriptionText' = text
           /\ UpdateTranscription(text)) =>
              UNCHANGED <<translations, nextReq, translationHistory,
                          historyIsArray, lastTranslationSegments, segs,
                          ttsQueue, enq, synth, isProcessingTTS,
                          currentUtterance>>]_vars

\* a transcript of blanks became the baseline and no request was ever made
C15_Witness ==
    /\ lastTranscriptionText # <<>>
    /\ transcriptionText = lastTranscriptionText
    /\ nextReq = 1

\* C16: a step in which a translation call fails makes no new call and leaves
\* the running translation, the window, the transcript and the session as
\* they are; and the suffix of the failed call (the same characters of the
\* same response) is not sent in a later call.
C16_FailedSuffixIsDropped ==
    [][/\ \A t \in translations :
              TranslateFailLogged(t) =>
                  /\ translations' = translations \ {t}
                  /\ UNCHANGED <<nextReq, translationHistory, historyIsArray,
                                 lastTranslationSegments, segs,
                                 transcriptionText, sessionId, isRecording,
                                 ttsQueue, enq>>
       /\ \A t \in {n \in translations' : n.id >= nextReq} :
              ~(failedCall.id # 0 /\ t.base = failedCall.base
                                 /\ t.cur = failedCall.cur)]_vars

\* C17: a step in which an upload fails (error status or exception) leaves the
\* cached transcript, the baseline and the session as they are and the
\* recorder running, and no upload made later holds a segment of a failed
\* upload.
C17_FailedSegmentIsSkipped ==
    [][/\ \A u \in uploads :
              (UploadNotOk(u) \/ UploadThrow(u)) =>
                  UNCHANGED <<transcriptionText, lastTranscriptionText,
                              sessionId, isRecording, mediaRecorder,
                              recorders, intervals, chunkInterval,
                              audioStream, liveStreams>>
       /\ \A u \in {n \in uploads' : n.id >= nextUpload} :
              Range(u.blob) \cap failedSegs = {}]_vars

\* C18: the step in which the recording of a session starts leaves a session
\* id that no earlier session had and an empty transcript, baseline, context
\* window and speech queue, so that the first suffix and the first request of
\* the session are cut and sent against nothing of the previous session.
C18_StartResetsSession ==
    [][\A st \in starts :
          MediaGranted(st) =>
              /\ sessionId' = nextSid - 1
              /\ transcriptionText' = <<>>
              /\ lastTranscriptionText' = <<>>
              /\ lastTranslationSegments' = <<>>
              /\ ttsQueue' = <<>>]_vars

\* the segment flushed by the stop is not yet handed over, or is being
\* uploaded, or a translation is in flight
C19_FinalSegmentPending ==
    \/ recTasks # <<>>
    \/ \E u \in uploads : nextSeg - 1 \in Range(u.blob)
    \/ translations # {}

\* C19: while the stop-session notification of a stopped session is under
\* way (and so before the session can be marked completed), the final segment
\* is neither waiting to be uploaded nor being transcribed or translated.
C19_CompletedAfterFinalSegment ==
    stopCalls # <<>> => ~C19_FinalSegmentPending

\* C20: every transcription the server stores belongs to a session whose
\* status is recording when the row is stored.
C20_NoSegmentAfterRecording ==
    \A i \in 1..Len(transcriptions) : transcriptions[i].during = "recording"

\* C21: at most one session is live per client instance: after any sequence
\* of start, stop and clear actions, a second start issued while an earlier
\* one still waits for the session call or the microphone included, there is
\* never more than one recorder recording, one rotation timer set and one
\* capture stream open.
C21_OneLiveSession ==
    /\ Cardinality({r \in 1..Len(recorders) : recorders[r] = "recording"}) <= 1
    /\ Cardinality(intervals) <= 1
    /\ Cardinality(liveStreams) <= 1

\* C22: when the session-start call fails, or the microphone is refused, no
\* recording runs, the attempt is not retried, and what the attempt acquired
\* is torn down: a session the server opened for it is stopped and its id
\* is dropped.
C22_FailedStartTearsDown ==
    [][\A st \in starts :
          (~isRecording /\ (SessionFail(st) \/ MediaDenied(st))) =>
              /\ ~isRecording'
              /\ starts' = starts \ {st}
              /\ nextStart' = nextStart
              /\ UNCHANGED <<recorders, intervals, liveStreams>>
              /\ st.stage = "media" =>
                     (sessionId' = 0 /\ Len(stopCalls') > Len(stopCalls))]_vars

\* C23: a failure of the capture device while the session records ends the
\* recording: the session is no longer recording after the step that
\* delivers the error.
C23_DeviceErrorFailsSession ==
    [][\A r \in 1..Len(recorders) :
          (isRecording /\ r = mediaRecorder /\ RecorderError(r)) =>
              ~isRecording']_vars

\* C24: a click on Clear when nothing records leaves the session idle with
\* the session id, the transcript, the diff baseline, the running translation
\* and the context window empty, no speech task queued, no utterance spoken
\* or about to be spoken, and sends nothing to the server.
C24_ClearEmptiesSession ==
    [][(~isRecording /\ ClearAll) =>
          /\ ~isRecording'
          /\ sessionId' = 0
          /\ transcriptionText' = <<>>
          /\ lastTranscriptionText' = <<>>
          /\ translationHistory' = <<>>
          /\ lastTranslationSegments' = <<>>
          /\ ttsQueue' = <<>>
          /\ ~isProcessingTTS'
          /\ currentUtterance' = NoUtterance
          /\ synth' = <<>>
          /\ \A i \in 1..Len(timers') : timers'[i].kind # "speak"
          /\ UNCHANGED <<stopCalls, uploads, nextUpload, nextReq,
                         audioSessions, transcriptions>>]_vars

\* C25: a stop while the recorder records closes the segment in flight once,
\* as one final segment handed over by one recorder task, cancels the
\* rotation timer of the session and releases its capture stream; once the
\* session is stopped no step rotates or closes a further segment.
C25_StopClosesFinalSegment ==
    [][/\ (StopRecordingClick /\ recorders[mediaRecorder] = "recording") =>
              /\ ~isRecording'
              /\ recorders'[mediaRecorder] = "inactive"
              /\ recTasks' = Append(recTasks, [rec |-> mediaRecorder,
                                               seg |-> nextSeg])
              /\ nextSeg' = nextSeg + 1
              /\ chunkInterval \notin intervals'
              /\ audioStream \notin liveStreams'
       /\ ~isRecording =>
              (nextSeg' = nextSeg /\ Len(recTasks') <= Len(recTasks))]_vars

\* a session stopped after one rotation, both segments handed over
C25_Witness ==
    /\ ~isRecording
    /\ mediaRecorder # 0
    /\ recorders[mediaRecorder] = "inactive"
    /\ intervals = {}
    /\ liveStreams = {}
    /\ closed = {1, 2}

\* C26: a rotation is one step that stops the recorder and starts it again:
\* in every reachable state in which the session records, the recorder is
\* recording, also right after a rotation.
C26_NoGapBetweenSegments ==
    isRecording => recorders[mediaRecorder] = "recording"

\* the session records its second segment, the first is being handed over
C26_Witness ==
    /\ isRecording
    /\ nextSeg = 2
    /\ recTasks = <<[rec |-> mediaRecorder, seg |-> 1]>>

\* C27: the recorder does not wait for the uploads: whenever the session
\* records and the previous hand-over has run, the rotation timer can fire
\* and its step closes the segment and records the next one, whatever
\* uploads are in flight.
C27_RotationNeverWaits ==
    (isRecording /\ recTasks = <<>>) =>
        ENABLED (\E i \in intervals :
                    /\ Rotate(i)
                    /\ nextSeg' = nextSeg + 1
                    /\ recorders'[mediaRecorder] = "recording")

\* a segment was closed while the upload of an earlier one is in flight
C27_Witness ==
    /\ isRecording
    /\ \E u \in uploads : \A k \in Range(u.blob) : k < nextSeg - 1

\* C28: within a session the chunk numbers sent with the uploads are 0, 1,
\* 2, ... in upload order: the number of an upload is the count of the
\* uploads made before it for the same session, also when a chunk becomes
\* available while the upload of the previous one is in flight.
C28_ChunkNumbersCountUp ==
    \A i \in 1..Len(first.chunkUploads) :
        first.chunkUploads[i].number =
            Cardinality({j \in 1..(i - 1) :
                            first.chunkUploads[j].sid = first.chunkUploads[i].sid})

\* C29: the encoding chosen is the first entry of the preference list that
\* the browser supports, or the default when it supports none, and whatever
\* the browser supports, a start whose session call succeeded and whose
\* microphone was granted leaves a recorder recording.
C29_EncodingNeverFailsStart ==
    [][\A st \in starts :
          HomeMediaGranted(st) =>
              /\ home'.selectedMimeTypeRef = HomeSelectedMimeType(supported)
              /\ (home'.selectedMimeTypeRef \in supported
                      \/ Range(HomeMimeTypes) \cap supported = {})
              /\ home'.recordingState = "recording"
              /\ home'.mediaRecorderRef # 0
              /\ recorders'[home'.mediaRecorderRef] = "recording"]_vars

\* C30: on the server startSession adds a session with an id no session has
\* yet, in status recording, and answers with that id; stopSession on a
\* session that exists sets its status to completed; no procedure removes a
\* session or changes a status other than from recording to completed.
C30_StatusOnlyAdvances ==
    [][/\ StartSessionProc(FALSE) =>
              /\ audioSessions' = Append(audioSessions, "recording")
              /\ reply'.ok
              /\ reply'.sessionId = Len(audioSessions')
              /\ reply'.sessionId \notin 1..Len(audioSessions)
       /\ \A sid \in 1..Len(audioSessions) :
              /\ StopSessionProc(sid) =>
                     (audioSessions'[sid] = "completed" /\ reply'.ok)
              /\ \/ audioSessions'[sid] = audioSessions[sid]
                 \/ /\ audioSessions[sid] = "recording"
                    /\ audioSessions'[sid] = "completed"
       /\ Len(audioSessions') >= Len(audioSessions)]_vars

\* one session was stopped, another was started after it and its id returned
C30_Witness ==
    /\ audioSessions = <<"completed", "recording">>
    /\ reply = [ok |-> TRUE, sessionId |-> 2]
    /\ transcriptions # <<>>

\* C31: the steps of the recording workflow of Home.tsx happen in order: the
\* handler that has read the recorded audio sends it with audio.uploadAudio;
\* audio.transcribeAudio is called only in the step that receives the answer
\* of an upload; and the transcript shown is set only in the step that
\* receives the answer of a transcription.
C31_WorkflowInOrder ==
    [][/\ HomeReaderLoad =>
              \E c \in home'.calls \ home.calls : c.proc = "uploadAudio"
       /\ \A c \in home'.calls \ home.calls :
              c.proc = "transcribeAudio" =>
                  \E u \in home.calls \ home'.calls : u.proc = "uploadAudio"
       /\ (home'.transcription # home.transcription
              /\ home'.transcription # <<>>) =>
              \E c \in home.calls \ home'.calls :
                  c.proc = "transcribeAudio"]_vars
\* C32: the suffixes sent to translation are disjoint, consecutive pieces of
\* the transcript: a suffix is cut where the suffix submitted before it ends,
\* also while the translation of that one is still in flight.
C32_SuffixesAreDisjoint ==
    \A t1, t2 \in translations : t1.id < t2.id => Len(t1.cur) <= t2.base
\* C33: the answer of a translation call that was made before the last clear
\* changes neither the transcript, the baseline of the next suffix, the
\* running translation, the context window nor the speech queue.
C33_StaleAnswerIsDropped ==
    [][\A t \in translations :
          (t.stale /\ (TranslateOk(t) \/ TranslateFail(t))) =>
              UNCHANGED <<transcriptionText, lastTranscriptionText,
                          translationHistory, lastTranslationSegments,
                          ttsQueue, currentUtterance>>]_vars
\* C34: while the page is idle only a click on start changes recordingState,
\* and stopSession is never called with the empty session id that
\* handleClear leaves.
C34_ClearedStaysIdle ==
    [][/\ (home.recordingState = "idle" /\ ~HomeStartRecordingClick) =>
              home'.recordingState = "idle"
       /\ \A c \in home'.calls \ home.calls :
              c.proc = "stopSession" => c.sid # 0]_vars
\* C35: the step in which stopRecording resumes after stopSession sets
\* completed, whether the call succeeded or failed, and a page that is
\* processing eventually is completed, or idle with an error shown.
C35_StopLeavesProcessing ==
    /\ [][\A c \in home.calls, netFails \in BOOLEAN :
              HomeStopAnswered(c, netFails) =>
                  home'.recordingState = "completed"]_vars
    /\ (home.recordingState = "processing") ~>
           (\/ home.recordingState = "completed"
            \/ home.recordingState = "idle" /\ home.error)

\* a stop has run to its end and the page is completed, although the upload
\* of the recording failed and the session is still open on the server
C35_Witness ==
    /\ home.recordingState = "completed"
    /\ home.stops = {}
    /\ home.calls = {}
    /\ home.toast = "upload failed"
    /\ home.sessionIdRef # 0
    /\ audioSessions[home.sessionIdRef] = "recording"

\* C36: a step in which a procedure looked its session id up and found no
\* session row (every procedure but startSession does the lookup at entry)
\* fails, writes no row in any table and calls neither the transcription
\* service nor the language model.
C36_UnknownSessionFails ==
    [][backend'.missing =>
           /\ ~reply'.ok
           /\ backend'.service = "none"
           /\ UNCHANGED <<audioSessions, transcriptions>>
           /\ backend'.translations = backend.translations
           /\ backend'.summaries = backend.summaries]_vars

\* a call with an unknown id has failed while a session with a stored
\* transcript, a translation and a summary exist
C36_Witness ==
    /\ backend.missing
    /\ ~reply.ok
    /\ backend.service = "none"
    /\ transcriptions # <<>>
    /\ backend.translations # <<>>
    /\ backend.summaries # <<>>

\* the transcript of row i is too short for a summary
TooShort(i) ==
    Len(Trim(transcriptions[i].originalText)) < MinTranscriptLength
\* C37: summary.generate for a session without a stored transcription, or
\* whose stored transcript has fewer than 50 characters after trimming,
\* fails, calls no language model and stores no summary; and a step that
\* stores a summary row has called the language model and succeeds.
C37_SummaryNeedsTranscript ==
    [][/\ \A sid \in 1..Len(audioSessions), i \in 0..Len(transcriptions),
             llmFails \in BOOLEAN :
              (/\ IF i = 0
                  THEN \A j \in 1..Len(transcriptions) :
                           transcriptions[j].sessionId # sid
                  ELSE transcriptions[i].sessionId = sid /\ TooShort(i)
               /\ Commit(GenerateProcF(St, sid, i, llmFails))) =>
                  /\ ~reply'.ok
                  /\ backend'.service = "none"
                  /\ backend'.summaries = backend.summaries
       /\ backend'.summaries # backend.summaries =>
              /\ backend'.service = "llm"
              /\ reply'.ok]_vars

\* a summary of a 50-letter transcript is stored, and a generate for a
\* session whose transcript is 49 letters between two spaces has failed
\* without a call of the language model
C37_Witness ==
    /\ backend.summaries # <<>>
    /\ Len(audioSessions) = MaxStarts
    /\ \E i \in 1..Len(transcriptions) : TooShort(i)
    /\ transcriptions[1].originalText \in TranscriptsNearMin
    /\ TooShort(1)
    /\ ~reply.ok
    /\ ~backend.missing
    /\ backend.service = "none"
====
